---- MODULE Spec2Model ----
(***************************************************************************)
(* osu-searcher: the beatmap record parser and the beatmap index           *)
(* (src/src/model/beatmap.py), with the path test they use                 *)
(* (src/src/ui/__init__.py).                                               *)
(*                                                                         *)
(* A Python str is a sequence of one-character strings.  An Optional value *)
(* is a sequence of length 0 (None) or 1.                                  *)
(***************************************************************************)
EXTENDS Integers, Sequences, FiniteSets, TLC

VARIABLES
    beatmaps,   \* BeatmapManager.beatmaps: the index, a sequence of Beatmap
    call,       \* the last call made on the manager, with its inputs
    ret,        \* what that call returned, or the exception it raised
    filename,   \* the filename handed to _parse_beatmap (parser runs)
    parsed,     \* what _parse_beatmap returned for it
    pc,         \* Client: where the client stands (which input it waits for)
    cmd,        \* Client: the command being executed ("init" in __init__)
    config,     \* ConfigManager._config: None or a Config
    config_file,    \* the content of CONFIG_FILE: None when it cannot be read
    has_beatmap_manager,    \* Client._beatmap_manager has been assigned
    input,      \* what the user just typed in _set_path, and whether it
                \* named a directory then
    find_arg,   \* the text the last find command was given
    printed,    \* what _print_beatmaps printed last: None or a list
    raised,     \* the exception that left the client: "None" when none did
    status      \* the exit status of the process: None while it runs

\* the state of the client
client_vars ==
    <<pc, cmd, config, config_file, has_beatmap_manager, input, find_arg,
      printed, raised, status>>

vars == <<beatmaps, call, ret, filename, parsed, client_vars>>

----------------------------------------------------------------------------
(* Bounds *)

\* longest filename the parser runs enumerate
MaxLen == 8
\* most entries a scanned directory has
MaxFiles == 3

----------------------------------------------------------------------------
(* Characters and the str methods the code uses *)

TAB == "\t"

\* the characters of the enumerated filenames
ParseChars == {" ", "-", TAB, "a"}

\* code point of a character (str comparison is by code point)
Ord(c) ==
    CASE c = TAB -> 9
      [] c = " " -> 32
      [] c = "-" -> 45
      [] c = "1" -> 49
      [] c = "2" -> 50
      [] c = "A" -> 65
      [] c = "B" -> 66
      [] c = "Y" -> 89
      [] c = "a" -> 97
      [] c = "b" -> 98
      [] c = "x" -> 120
      [] c = "y" -> 121

isspace(c) == c \in {" ", TAB}

isdigit(c) == c \in {"1", "2"}

SetMin(S) == CHOOSE x \in S : \A y \in S : x <= y

SetMax(S) == CHOOSE x \in S : \A y \in S : x >= y

\* str.lower() on one character
lower_char(c) ==
    CASE c = "A" -> "a"
      [] c = "B" -> "b"
      [] c = "Y" -> "y"
      [] OTHER -> c

\* str.lower()
lower(s) == [i \in 1..Len(s) |-> lower_char(s[i])]

\* str.strip(): leading and trailing whitespace removed
strip(s) ==
    LET keep == {i \in 1..Len(s) : ~isspace(s[i])}
    IN  IF keep = {} THEN <<>> ELSE SubSeq(s, SetMin(keep), SetMax(keep))

\* the start positions of the occurrences of sub in s
Occurrences(s, sub) ==
    {i \in 1..(Len(s) - Len(sub) + 1) : SubSeq(s, i, i + Len(sub) - 1) = sub}

\* `in` that does not find the empty str
str_in_nonempty(sub, s) == sub # <<>> /\ Occurrences(s, sub) # {}

\* sub in s
str_in(sub, s) == Occurrences(s, sub) # {}

\* split cutting at the last occurrence of sep instead of the first
split_at_last(s, sep) ==
    LET occ == Occurrences(s, sep)
    IN  IF occ = {} THEN <<s>>
        ELSE <<SubSeq(s, 1, SetMax(occ) - 1),
               SubSeq(s, SetMax(occ) + Len(sep), Len(s))>>

\* s.split(sep, 1): split at the first occurrence of sep, if there is one
split(s, sep) ==
    LET occ == Occurrences(s, sep)
    IN  IF occ = {} THEN <<s>>
        ELSE <<SubSeq(s, 1, SetMin(occ) - 1),
               SubSeq(s, SetMin(occ) + Len(sep), Len(s))>>

\* rsplit cutting at the first occurrence of sep instead of the last
rsplit_at_first(s, sep) == split(s, sep)

\* s.rsplit(sep, 1): split at the last occurrence of sep, if there is one
rsplit(s, sep) ==
    LET occ == Occurrences(s, sep)
    IN  IF occ = {} THEN <<s>>
        ELSE <<SubSeq(s, 1, SetMax(occ) - 1),
               SubSeq(s, SetMax(occ) + Len(sep), Len(s))>>

\* a < b on str: lexicographic by code point
str_lt(a, b) ==
    LET diff == {i \in 1..Len(a) : i > Len(b) \/ a[i] # b[i]}
    IN  IF diff = {} THEN Len(a) < Len(b)
        ELSE LET i == SetMin(diff) IN i <= Len(b) /\ Ord(a[i]) < Ord(b[i])

----------------------------------------------------------------------------
(* Beatmap *)

None == <<>>

Some(x) == <<x>>

\* Beatmap(sid, artist, name) with the lower-case caches of __post_init__
Beatmap(sid, artist, name) ==
    [sid |-> sid, artist |-> artist, name |-> name,
     artist_lower |-> lower(artist), name_lower |-> lower(name)]

SEP == <<" ", "-", " ">>

\* BeatmapManager._parse_beatmap: Some(Beatmap), or None from the except
\* branch, which the unpacking `tmp, *name = ...` reaches only on an empty
\* list
_parse_beatmap(f) ==
    LET parts == rsplit(strip(f), SEP)
    IN  IF Len(parts) < 1 THEN None
        ELSE
          LET tmp    == parts[1]
              name   == Tail(parts)
              sp     == split(tmp, <<" ">>)
              sid    == sp[1]
              artist == Tail(sp)
          IN  Some(Beatmap(sid,
                           IF artist # <<>> THEN strip(artist[1]) ELSE <<>>,
                           IF name # <<>> THEN name[1] ELSE <<>>))

\* __lt__ comparing the lower-case names instead of the names
Beatmap__lt__ignoring_case(x, y) == str_lt(x.name_lower, y.name_lower)

\* Beatmap.__lt__: by the name string alone
Beatmap__lt__(x, y) == str_lt(x.name, y.name)

\* Beatmap.__eq__: by the sid string alone
Beatmap__eq__(x, y) == x.sid = y.sid

----------------------------------------------------------------------------
(* BeatmapManager *)

\* IOUtils.is_valid_path: `path and os.path.isdir(path)`; isdir is what
\* os.path.isdir answers for a non-empty path
is_valid_path(path, isdir) == path # None /\ path[1] # "" /\ isdir

\* filter(None, xs): the values that are not None (a Beatmap is always true)
filter_None(xs) ==
    LET RECURSIVE F(_)
        F(s) == IF s = <<>> THEN <<>> ELSE Head(s) \o F(Tail(s))
    IN  F(xs)

\* x put into the sorted sequence s behind every element it is not less than
insort(s, x) ==
    LET after == {i \in 1..Len(s) : Beatmap__lt__(x, s[i])}
        k     == IF after = {} THEN Len(s) + 1 ELSE SetMin(after)
    IN  SubSeq(s, 1, k - 1) \o <<x>> \o SubSeq(s, k, Len(s))

\* sorted(xs): stable, comparing with __lt__ only
sorted(xs) ==
    LET RECURSIVE S(_)
        S(n) == IF n = 0 THEN <<>> ELSE insort(S(n - 1), xs[n])
    IN  S(Len(xs))

\* load emptying the index, instead of keeping it, on an invalid path
load_clearing(self, path, isdir, entries) ==
    IF ~is_valid_path(path, isdir) THEN <<>>
    ELSE IF entries = <<>> THEN self
    ELSE sorted(filter_None([i \in 1..Len(entries) |-> _parse_beatmap(entries[i])]))

\* BeatmapManager.load: the new value of self.beatmaps; entries is what
\* os.scandir(path) lists, in its order
load(self, path, isdir, entries) ==
    IF ~is_valid_path(path, isdir) THEN self
    ELSE IF entries = <<>> THEN self
    ELSE sorted(filter_None([i \in 1..Len(entries) |-> _parse_beatmap(entries[i])]))

\* ConditionType: the values of the enumeration
ConditionType == {"sid", "artist", "name"}

\* a Condition as Python sees it: a str, a dict (keys and values of any
\* type), or a value of another type
StrCondition(s) == [type |-> "str", s |-> s, items |-> <<>>]

DictCondition(items) == [type |-> "dict", s |-> <<>>, items |-> items]

OtherCondition == [type |-> "other", s |-> <<>>, items |-> <<>>]

\* a dict key: a ConditionType member, or a plain str with the same text
EnumKey(k) == [enum |-> TRUE, value |-> k]

StrKey(k) == [enum |-> FALSE, value |-> k]

\* a dict value: a str, or a value that is no str
StrVal(s) == [str |-> TRUE, s |-> s]

NonStrVal == [str |-> FALSE, s |-> <<>>]

\* getattr(self, k.value)
getattr(self, k) ==
    CASE k = "sid" -> self.sid
      [] k = "artist" -> self.artist
      [] k = "name" -> self.name

Returns(v) == [exc |-> "None", value |-> v]

Raises(e) == [exc |-> e, value |-> <<>>]

\* Beatmap.__contains__
Beatmap__contains__(self, s) ==
    IF s.type = "str"
    THEN Returns(\E attr \in {self.sid, self.artist_lower, self.name_lower} :
                    str_in(lower(s.s), attr))
    ELSE IF s.type # "dict" THEN Raises("TypeError")
    ELSE IF \E k \in DOMAIN s.items : ~k.enum THEN Raises("TypeError")
    ELSE IF \E k \in DOMAIN s.items : ~s.items[k].str THEN Raises("TypeError")
    ELSE Returns(\A k \in DOMAIN s.items :
                    str_in(lower(s.items[k].s), getattr(self, k.value)))

\* int(s) for a str of these characters: surrounding whitespace is dropped,
\* then an optional "-" and one or more digits; anything else is a ValueError
int(s) ==
    LET t      == strip(s)
        neg    == t # <<>> /\ t[1] = "-"
        digits == IF neg THEN Tail(t) ELSE t
        RECURSIVE V(_)
        V(d) == IF d = <<>> THEN 0
                ELSE 10 * V(SubSeq(d, 1, Len(d) - 1)) + (Ord(d[Len(d)]) - Ord("1") + 1)
    IN  IF digits = <<>> \/ \E i \in 1..Len(digits) : ~isdigit(digits[i])
        THEN Raises("ValueError")
        ELSE Returns(IF neg THEN 0 - V(digits) ELSE V(digits))

\* hash(n) of a small int: n itself, but -2 for -1
hash_int(n) == IF n = 0 - 1 THEN 0 - 2 ELSE n

\* Beatmap.__hash__: hash(int(self.sid))
Beatmap__hash__(self) ==
    LET n == int(self.sid)
    IN  IF n.exc # "None" THEN n ELSE Returns(hash_int(n.value))

\* filter returning the matching records in reverse order
filter_reversed(self, condition) ==
    LET r == [i \in 1..Len(self) |-> Beatmap__contains__(self[i], condition)]
        failed == {i \in 1..Len(self) : r[i].exc # "None"}
        hit == SelectSeq(self, LAMBDA b : Beatmap__contains__(b, condition).value)
    IN  IF failed # {} THEN r[SetMin(failed)]
        ELSE Returns([n \in 1..Len(hit) |-> hit[Len(hit) + 1 - n]])

\* BeatmapManager.filter
filter(self, condition) ==
    LET r == [i \in 1..Len(self) |-> Beatmap__contains__(self[i], condition)]
        failed == {i \in 1..Len(self) : r[i].exc # "None"}
    IN  IF failed # {} THEN r[SetMin(failed)]
        ELSE Returns(SelectSeq(self,
                 LAMBDA b : Beatmap__contains__(b, condition).value))

\* Counter(xs).items(): <<key, count>> in the order the keys were first
\* inserted; two elements share a key when their hashes and they are equal
Counter(xs) ==
    LET h == [i \in 1..Len(xs) |-> Beatmap__hash__(xs[i])]
        failed == {i \in 1..Len(xs) : h[i].exc # "None"}
        same(i, j) == h[i].value = h[j].value /\ Beatmap__eq__(xs[i], xs[j])
        key(i) == SetMin({j \in 1..i : same(j, i)})
        firsts == SelectSeq([i \in 1..Len(xs) |-> i], LAMBDA i : key(i) = i)
    IN  IF failed # {} THEN h[SetMin(failed)]
        ELSE Returns([n \in 1..Len(firsts) |->
                 <<xs[firsts[n]],
                   Cardinality({j \in 1..Len(xs) : key(j) = firsts[n]})>>])

\* BeatmapManager.check
check(self) ==
    LET c == Counter(self)
    IN  IF c.exc # "None" THEN c
        ELSE LET dup == SelectSeq(c.value, LAMBDA item : item[2] > 1)
             IN  Returns([n \in 1..Len(dup) |-> dup[n][1]])

----------------------------------------------------------------------------
(* The parser runs: one filename, parsed once *)

Strings(chars, n) == UNION {[1..k -> chars] : k \in 0..n}

NotCalled == [called |-> FALSE, result |-> None]

NoCall == [op |-> "none"]

NoRet == Returns(<<>>)

NoInput == [text |-> "", isdir |-> FALSE]

\* no client has been constructed
NoClient ==
    /\ pc = "none"
    /\ cmd = "none"
    /\ config = None
    /\ config_file = None
    /\ has_beatmap_manager = FALSE
    /\ input = NoInput
    /\ find_arg = <<>>
    /\ printed = None
    /\ raised = "None"
    /\ status = None

InitParse ==
    /\ filename \in Strings(ParseChars, MaxLen) \ {<<>>}
    /\ parsed = NotCalled
    /\ beatmaps = <<>>
    /\ call = NoCall
    /\ ret = NoRet
    /\ NoClient

ParseBeatmap ==
    /\ ~parsed.called
    /\ parsed' = [called |-> TRUE, result |-> _parse_beatmap(filename)]
    /\ UNCHANGED <<beatmaps, call, ret, filename>>
    /\ UNCHANGED client_vars

NextParse == ParseBeatmap

SpecParse == InitParse /\ [][NextParse]_vars

----------------------------------------------------------------------------
(* The index runs: a caller makes one call at a time on one BeatmapManager   *)
(* and takes its result before the next call                                 *)

\* how often x occurs in the sequence s
Count(s, x) == Cardinality({i \in 1..Len(s) : s[i] = x})

\* the entry names a scanned directory may hold
FileNames ==
    { <<"1", " ", "a", " ", "-", " ", "x">>,        \* 1 a - x
      <<"1", " ", "B", " ", "-", " ", "Y">>,        \* 1 B - Y
      <<"2", " ", "b", " ", "-", " ", "x">>,        \* 2 b - x
      <<"2", " ", "a", " ", "-", " ", "y">>,        \* 2 a - y
      <<"A", "1", " ", "b", " ", "-", " ", "y">>,   \* A1 b - y
      <<"a", "b">> }                                \* ab

\* what os.scandir can list: up to MaxFiles distinct names, in any order
Listings ==
    UNION {{l \in [1..n -> FileNames] : \A i, j \in 1..n : l[i] = l[j] => i = j}
           : n \in 0..MaxFiles}

\* the paths handed to load: None, "", and a non-empty path
Paths == {None, Some(""), Some("Songs")}

\* the keywords handed to filter
Keywords ==
    {<<>>, <<"1">>, <<"a">>, <<"A">>, <<"b">>, <<"B">>, <<"Y">>, <<"a", "1">>}

DictKeywords == {<<"1">>, <<"a">>, <<"b">>, <<"B">>, <<"y">>}

\* the conditions handed to filter: keywords, dicts of up to two selectors,
\* a dict with a str key, a dict with a value that is no str, and a value
\* that is neither str nor dict
Conditions ==
    {StrCondition(k) : k \in Keywords}
    \cup {DictCondition(d) :
            d \in UNION {[{EnumKey(k) : k \in K} -> {StrVal(w) : w \in DictKeywords}]
                         : K \in {S \in SUBSET ConditionType : Cardinality(S) <= 2}}}
    \cup {DictCondition([k \in {StrKey("sid")} |-> StrVal(<<"1">>)]),
          DictCondition([k \in {EnumKey("sid")} |-> NonStrVal]),
          OtherCondition}

Init ==
    /\ beatmaps = <<>>
    /\ call = NoCall
    /\ ret = NoRet
    /\ filename = <<>>
    /\ parsed = NotCalled
    /\ NoClient

\* manager.load(path), while path is or is not a directory listing entries
Load ==
    \E path \in Paths, isdir \in BOOLEAN, entries \in Listings :
        /\ call.op = "none"
        /\ (entries # <<>> => is_valid_path(path, isdir))
        /\ beatmaps' = load(beatmaps, path, isdir, entries)
        /\ call' = [op |-> "load", path |-> path, isdir |-> isdir,
                    entries |-> entries]
        /\ ret' = Returns(<<>>)
        /\ UNCHANGED <<filename, parsed>>
        /\ UNCHANGED client_vars

\* manager.filter(condition)
Filter ==
    \E condition \in Conditions :
        /\ call.op = "none"
        /\ call' = [op |-> "filter", condition |-> condition]
        /\ ret' = filter(beatmaps, condition)
        /\ UNCHANGED <<beatmaps, filename, parsed>>
        /\ UNCHANGED client_vars

\* check() removing the later records of each duplicated id from the index
Check_removing_duplicates ==
    /\ call.op = "none"
    /\ call' = [op |-> "check"]
    /\ ret' = check(beatmaps)
    /\ beatmaps' = SelectSeq(beatmaps, LAMBDA b :
                       Count(ret'.value, b) > 0 \/ \A d \in 1..Len(ret'.value) :
                           ret'.value[d].sid # b.sid)
    /\ UNCHANGED <<filename, parsed>>
    /\ UNCHANGED client_vars

\* manager.check()
Check ==
    /\ call.op = "none"
    /\ call' = [op |-> "check"]
    /\ ret' = check(beatmaps)
    /\ UNCHANGED <<beatmaps, filename, parsed>>
    /\ UNCHANGED client_vars

\* the caller takes the result (or catches the exception) of its call
Return ==
    /\ call.op # "none"
    /\ call' = NoCall
    /\ ret' = NoRet
    /\ UNCHANGED <<beatmaps, filename, parsed>>
    /\ UNCHANGED client_vars

\* manager.beatmaps: the index itself
Beatmaps ==
    /\ call.op = "none"
    /\ call' = [op |-> "beatmaps"]
    /\ ret' = Returns(beatmaps)
    /\ UNCHANGED <<beatmaps, filename, parsed>>
    /\ UNCHANGED client_vars

Next == Load \/ Filter \/ Check \/ Beatmaps \/ Return

Spec == Init /\ [][Next]_vars

----------------------------------------------------------------------------
(* The client runs: one Client is constructed, then executes the commands    *)
(* typed at its prompt. The directory's state (isdir, listing) is read at    *)
(* each scan; the config file may be edited while the client waits.          *)

\* the most entries a directory scanned by the client holds
MaxScan == 2

\* what os.scandir can list for the client
Scans == {l \in Listings : Len(l) <= MaxScan}

\* `not path` is false: path is neither None nor ""
bool(path) == path # None /\ path[1] # ""

\* Config._DEFAULT_CONFIG
_DEFAULT_CONFIG == [path |-> None]

\* the content of the config file: no JSON (or no file), bytes that are no
\* UTF-8 text, a JSON dict with a path entry, or JSON that is no dict or an
\* empty one
Unreadable == [kind |-> "unreadable", path |-> None]

Undecodable == [kind |-> "undecodable", path |-> None]

JsonDict(c) == [kind |-> "dict", path |-> c.path]

JsonOther == [kind |-> "other", path |-> None]

ConfigFiles ==
    {Unreadable, Undecodable, JsonOther, JsonDict([path |-> None]),
     JsonDict([path |-> Some("")]), JsonDict([path |-> Some("songs")])}

\* Config(data)
Config(data) == IF data.kind = "dict" THEN [path |-> data.path] ELSE _DEFAULT_CONFIG

\* ConfigManager._read while the file can or cannot be written: the config
\* and the file after it, and the exception raised. IOError and
\* JSONDecodeError reset the config, and reset() sets the default before it
\* saves it; the UnicodeDecodeError of json.load is not caught
_read(file, writable) ==
    CASE file.kind = "undecodable" ->
             [config |-> None, file |-> file, exc |-> "UnicodeDecodeError"]
      [] file.kind = "unreadable" ->
             IF writable
             THEN [config |-> Some(_DEFAULT_CONFIG),
                   file |-> JsonDict(_DEFAULT_CONFIG), exc |-> "None"]
             ELSE [config |-> Some(_DEFAULT_CONFIG), file |-> file,
                   exc |-> "IOError"]
      [] OTHER -> [config |-> Some(Config(file)), file |-> file, exc |-> "None"]

\* str.lower() on the texts typed in _set_path
lower_str(s) ==
    CASE s = "Q" -> "q"
      [] s = "Songs" -> "songs"
      [] OTHER -> s

\* what the user types in _set_path
Inputs == {"q", "Q", "", "songs", "Songs", "x"}

\* the text of each ConditionType value
value(k) ==
    CASE k = "sid" -> <<"s", "i", "d">>
      [] k = "artist" -> <<"a", "r", "t", "i", "s", "t">>
      [] k = "name" -> <<"n", "a", "m", "e">>

\* text in ConditionType
in_ConditionType(text) == \E k \in ConditionType : value(k) = text

\* ConditionType(text)
ConditionType_of(text) == CHOOSE k \in ConditionType : value(k) = text

\* the texts given to find: "", a, 1, sid=1, artist=b, name=x, name=,
\* sid==1, x=1, =a, sid
FindArgs ==
    { <<>>, <<"a">>, <<"1">>,
      <<"s", "i", "d", "=", "1">>,
      <<"a", "r", "t", "i", "s", "t", "=", "b">>,
      <<"n", "a", "m", "e", "=", "x">>,
      <<"n", "a", "m", "e", "=">>,
      <<"s", "i", "d", "=", "=", "1">>,
      <<"x", "=", "1">>,
      <<"=", "a">>,
      <<"s", "i", "d">> }

\* what is typed at the prompt: the keys of Client._COMMANDS, a text that is
\* none of them, and the help option of argparse
Commands == {"check", "exit", "find", "flush", "list", "path", "", "-h"}

parser_vars == <<filename, parsed>>

InitClient ==
    /\ beatmaps = <<>>
    /\ call = NoCall
    /\ ret = NoRet
    /\ filename = <<>>
    /\ parsed = NotCalled
    /\ pc = "start"
    /\ cmd = "none"
    /\ config = None
    /\ config_file \in ConfigFiles
    /\ has_beatmap_manager = FALSE
    /\ input = NoInput
    /\ find_arg = <<>>
    /\ printed = None
    /\ raised = "None"
    /\ status = None

\* the exception e leaves the client. OSSApplication.run catches
\* KeyboardInterrupt and IOError around Client.run and exits with 130 and 4;
\* any other exception, and any in Client() (made before run is called),
\* ends the process with a traceback
OSSApplication_run(e, running) ==
    /\ raised' = e
    /\ pc' = IF running /\ e \in {"KeyboardInterrupt", "IOError"}
             THEN "exited" ELSE "crashed"
    /\ status' = IF ~running THEN Some(1)
                 ELSE CASE e = "KeyboardInterrupt" -> Some(130)
                        [] e = "IOError" -> Some(4)
                        [] OTHER -> Some(1)

\* Client.config_manager (setter) to its loop: a new ConfigManager loads the
\* config file; with a path the index is loaded next, else the path is asked
config_manager_setter(running) ==
    \E writable \in BOOLEAN :
        LET r == _read(config_file, writable)
        IN  /\ config' = r.config
            /\ config_file' = r.file
            /\ IF r.exc = "None"
               THEN /\ pc' = IF bool(r.config[1].path) THEN "load" ELSE "set_path"
                    /\ UNCHANGED <<raised, status>>
               ELSE OSSApplication_run(r.exc, running)

\* Client()
Client__init__ ==
    /\ pc = "start"
    /\ cmd' = "init"
    /\ config_manager_setter(FALSE)
    /\ UNCHANGED <<beatmaps, call, ret, has_beatmap_manager, input, find_arg,
                   printed, parser_vars>>

\* _execute_command whose check command does not flush before it checks
_execute_command_check_unflushed ==
    \E command \in Commands :
        /\ pc = "prompt"
        /\ IF command = ""
           THEN UNCHANGED <<pc, cmd, call, ret, printed, status>>
           ELSE IF command = "-h"
           THEN /\ pc' = "exited"
                /\ status' = Some(0)
                /\ UNCHANGED <<cmd, call, ret, printed>>
           ELSE /\ cmd' = command
                /\ pc' = CASE command = "flush" -> "flush"
                           [] command = "path" -> "set_path"
                           [] OTHER -> command
                /\ call' = NoCall
                /\ ret' = NoRet
                /\ printed' = None
                /\ status' = status
        /\ UNCHANGED <<beatmaps, config, config_file, has_beatmap_manager,
                       input, find_arg, raised, parser_vars>>

\* Client._parse_command and _execute_command: the command typed at the
\* prompt is parsed and looked up in _COMMANDS and its method started; a
\* text that is no key of _COMMANDS is ignored, but at the help option the
\* ArgumentParser prints its help and exits with status 0
_execute_command ==
    \E command \in Commands :
        /\ pc = "prompt"
        /\ IF command = ""
           THEN UNCHANGED <<pc, cmd, call, ret, printed, status>>
           ELSE IF command = "-h"
           THEN /\ pc' = "exited"
                /\ status' = Some(0)
                /\ UNCHANGED <<cmd, call, ret, printed>>
           ELSE /\ cmd' = command
                /\ pc' = CASE command \in {"check", "flush"} -> "flush"
                           [] command = "path" -> "set_path"
                           [] OTHER -> command
                /\ call' = NoCall
                /\ ret' = NoRet
                /\ printed' = None
                /\ status' = status
        /\ UNCHANGED <<beatmaps, config, config_file, has_beatmap_manager,
                       input, find_arg, raised, parser_vars>>

\* Client._flush: self.config_manager = ConfigManager()
_flush ==
    /\ pc = "flush"
    /\ config_manager_setter(TRUE)
    /\ input' = NoInput
    /\ UNCHANGED <<beatmaps, call, ret, cmd, has_beatmap_manager, find_arg,
                   printed, parser_vars>>

\* Client._set_path to its input: the screen is cleared and _print_path
\* reads the index of the client's beatmap manager
_print_path ==
    /\ pc = "set_path"
    /\ IF has_beatmap_manager
       THEN pc' = "input" /\ UNCHANGED <<raised, status>>
       ELSE OSSApplication_run("AttributeError", cmd # "init")
    /\ input' = NoInput
    /\ UNCHANGED <<beatmaps, call, ret, cmd, config, config_file,
                   has_beatmap_manager, find_arg, printed, parser_vars>>

\* Config.path (setter)
Config_path(self, path, isdir) ==
    IF ~is_valid_path(path, isdir) THEN self ELSE [self EXCEPT !.path = path]

\* where the client goes on when _set_path has returned: _path flushes, the
\* loop of the config_manager setter tests the path again
after_set_path(c) ==
    /\ pc' = IF cmd = "path" THEN "flush"
             ELSE IF bool(c.path) THEN "load" ELSE "set_path"
    /\ cmd' = IF cmd = "path" THEN "flush" ELSE cmd

\* Client._set_path from its input, while the config file can or cannot be
\* written: `q` returns, a valid path is set in the config and saved in the
\* config file, anything else is asked again
_set_path ==
    \E text \in Inputs, isdir \in BOOLEAN, writable \in BOOLEAN :
        LET command == lower_str(text)
        IN  /\ pc = "input"
            /\ input' = [text |-> text, isdir |-> isdir]
            /\ IF command = "q"
               THEN /\ UNCHANGED <<config, config_file, raised, status>>
                    /\ after_set_path(config[1])
               ELSE IF ~is_valid_path(Some(command), isdir)
               THEN /\ UNCHANGED <<config, config_file, cmd, raised, status>>
                    /\ pc' = "set_path"
               ELSE /\ config' = Some(Config_path(config[1], Some(command), isdir))
                    /\ IF writable
                       THEN /\ config_file' = JsonDict(config'[1])
                            /\ after_set_path(config'[1])
                            /\ UNCHANGED <<raised, status>>
                       ELSE /\ OSSApplication_run("IOError", cmd # "init")
                            /\ UNCHANGED <<config_file, cmd>>
            /\ UNCHANGED <<beatmaps, call, ret, has_beatmap_manager, find_arg,
                           printed, parser_vars>>

\* the beatmap_manager setter loading into the manager the client has
beatmap_manager_setter_keeping_manager ==
    \E isdir \in BOOLEAN, entries \in Scans :
        /\ pc = "load"
        /\ (entries # <<>> => is_valid_path(config[1].path, isdir))
        /\ has_beatmap_manager' = TRUE
        /\ beatmaps' = load(beatmaps, config[1].path, isdir, entries)
        /\ call' = [op |-> "load", path |-> config[1].path, isdir |-> isdir,
                    entries |-> entries]
        /\ ret' = Returns(<<>>)
        /\ pc' = IF cmd = "check" THEN "check" ELSE "prompt"
        /\ cmd' = IF cmd = "check" THEN cmd ELSE "none"
        /\ input' = NoInput
        /\ UNCHANGED <<config, config_file, find_arg, printed, raised,
                       status, parser_vars>>

\* Client.beatmap_manager (setter): a new BeatmapManager loads the
\* configured path; _check goes on with the check, else the prompt is next
beatmap_manager_setter ==
    \E isdir \in BOOLEAN, entries \in Scans :
        /\ pc = "load"
        /\ (entries # <<>> => is_valid_path(config[1].path, isdir))
        /\ has_beatmap_manager' = TRUE
        /\ beatmaps' = load(<<>>, config[1].path, isdir, entries)
        /\ call' = [op |-> "load", path |-> config[1].path, isdir |-> isdir,
                    entries |-> entries]
        /\ ret' = Returns(<<>>)
        /\ pc' = IF cmd = "check" THEN "check" ELSE "prompt"
        /\ cmd' = IF cmd = "check" THEN cmd ELSE "none"
        /\ input' = NoInput
        /\ UNCHANGED <<config, config_file, find_arg, printed, raised,
                       status, parser_vars>>

\* what is printed, or the exception raised, when a call on the manager
\* ended with r
_print_beatmaps(r) ==
    IF r.exc = "None"
    THEN pc' = "pause" /\ printed' = Some(r.value) /\ UNCHANGED <<raised, status>>
    ELSE printed' = printed /\ OSSApplication_run(r.exc, TRUE)

\* Client._check after its flush: the duplicates of the index are printed
_check ==
    /\ pc = "check"
    /\ _print_beatmaps(check(beatmaps))
    /\ UNCHANGED <<beatmaps, call, ret, cmd, config, config_file,
                   has_beatmap_manager, input, find_arg, parser_vars>>

\* Client._list
_list ==
    /\ pc = "list"
    /\ call' = [op |-> "beatmaps"]
    /\ ret' = Returns(beatmaps)
    /\ _print_beatmaps(ret')
    /\ UNCHANGED <<beatmaps, cmd, config, config_file, has_beatmap_manager,
                   input, find_arg, parser_vars>>

\* the criterion Client._find makes of the text condition
criterion(condition) ==
    LET args == split(condition, <<"=">>)
    IN  IF Len(args) = 2 /\ in_ConditionType(args[1])
        THEN DictCondition([k \in {EnumKey(ConditionType_of(args[1]))}
                               |-> StrVal(args[2])])
        ELSE StrCondition(condition)

\* Client._find(arg): without an argument the keyword is asked
_find ==
    \E arg \in FindArgs, typed \in FindArgs :
        LET condition == IF arg = <<>> THEN typed ELSE arg
        IN  /\ pc = "find"
            /\ (arg # <<>> => typed = <<>>)
            /\ find_arg' = condition
            /\ call' = [op |-> "filter", condition |-> criterion(condition)]
            /\ ret' = filter(beatmaps, call'.condition)
            /\ _print_beatmaps(ret')
            /\ UNCHANGED <<beatmaps, cmd, config, config_file,
                           has_beatmap_manager, input, parser_vars>>

\* _io.pause(): Enter is pressed and the prompt is shown again
pause ==
    /\ pc = "pause"
    /\ pc' = "prompt"
    /\ call' = NoCall
    /\ ret' = NoRet
    /\ printed' = None
    /\ cmd' = "none"
    /\ find_arg' = <<>>
    /\ UNCHANGED <<beatmaps, config, config_file, has_beatmap_manager, input,
                   raised, status, parser_vars>>

\* Client.exit(): the exit command, status 0
exit ==
    /\ pc = "exit"
    /\ pc' = "exited"
    /\ status' = Some(0)
    /\ UNCHANGED <<beatmaps, call, ret, cmd, config, config_file,
                   has_beatmap_manager, input, find_arg, printed, raised,
                   parser_vars>>

\* Ctrl-C while the client waits for input: at its prompt, in _set_path, or
\* in the pause after a print
KeyboardInterrupt ==
    /\ pc \in {"prompt", "input", "pause"}
    /\ OSSApplication_run("KeyboardInterrupt", cmd # "init")
    /\ UNCHANGED <<beatmaps, call, ret, cmd, config, config_file,
                   has_beatmap_manager, input, find_arg, printed, parser_vars>>

\* the config file is edited or removed while the client waits at its prompt
EditConfigFile ==
    /\ pc = "prompt"
    /\ config_file' \in ConfigFiles \ {config_file}
    /\ UNCHANGED <<beatmaps, call, ret, pc, cmd, config, has_beatmap_manager,
                   input, find_arg, printed, raised, status, parser_vars>>

NextClient ==
    \/ Client__init__
    \/ _execute_command
    \/ _flush
    \/ _print_path
    \/ _set_path
    \/ beatmap_manager_setter
    \/ _check
    \/ _list
    \/ _find
    \/ pause
    \/ exit
    \/ KeyboardInterrupt
    \/ EditConfigFile

SpecClient == InitClient /\ [][NextClient]_vars

----------------------------------------------------------------------------
(* Claims about the parser (checked under SpecParse) *)

\* SEP occurs in s at position i
SepAt(s, i) == i + 2 <= Len(s) /\ s[i] = " " /\ s[i + 1] = "-" /\ s[i + 2] = " "

HasSep(s) == \E i \in 1..Len(s) : SepAt(s, i)

Stripped(s) == s = <<>> \/ (~isspace(s[1]) /\ ~isspace(s[Len(s)]))

\* the parts the claimed algorithm finds in s (which contains " - "): s cut
\* at its last " - " into head and title, head cut at its first space into
\* id and creator, the whole head and "" when head has no space
ClaimedParts(s) ==
    LET i      == SetMax({j \in 1..Len(s) : SepAt(s, j)})
        head   == SubSeq(s, 1, i - 1)
        spaces == {k \in 1..Len(head) : head[k] = " "}
    IN  [id      |-> IF spaces = {} THEN head
                     ELSE SubSeq(head, 1, SetMin(spaces) - 1),
         creator |-> IF spaces = {} THEN <<>>
                     ELSE SubSeq(head, SetMin(spaces) + 1, Len(head)),
         title   |-> SubSeq(s, i + 3, Len(s))]

\* C1: a filename without " - " makes _parse_beatmap report a failure
\* (return None).
C1_NoSeparatorFails ==
    (parsed.called /\ ~HasSep(filename)) => parsed.result = None

\* C2 as stated: every filename containing " - " is cut at its last " - "
\* into head and title and head at its first space into id and creator
\* (fields compared up to surrounding whitespace).
C2_SplitsFilename ==
    (parsed.called /\ HasSep(filename)) =>
        /\ parsed.result # None
        /\ LET r == parsed.result[1]
               c == ClaimedParts(filename)
           IN  /\ strip(r.sid) = strip(c.id)
               /\ strip(r.artist) = strip(c.creator)
               /\ strip(r.name) = strip(c.title)

\* C2 amended: every filename that still contains " - " once its surrounding
\* whitespace is removed is cut, in that stripped form, at its last " - "
\* into head and title, and head at its first space into id and creator (the
\* whole head and "" when head has no space); the record holds exactly that
\* id and title and the creator with its surrounding whitespace removed, and
\* the id holds no space.
C2_SplitsStrippedFilename ==
    (parsed.called /\ HasSep(strip(filename))) =>
        /\ parsed.result # None
        /\ LET r == parsed.result[1]
               c == ClaimedParts(strip(filename))
           IN  /\ r.sid = c.id
               /\ r.artist = strip(c.creator)
               /\ r.name = c.title
               /\ \A m \in 1..Len(r.sid) : r.sid[m] # " "

C2_Witness ==
    /\ parsed.called
    /\ filename = <<"a", " ", "-", " ", "-", " ", "-", "a">>
    /\ parsed.result = Some(Beatmap(<<"a">>, <<"-">>, <<"-", "a">>))

\* the filenames "<id> <creator> - <title>" with something in each part
HasForm(s) ==
    \E k \in 1..Len(s), i \in 1..Len(s) :
        /\ k < i /\ s[k] = " " /\ SepAt(s, i)
        /\ strip(SubSeq(s, 1, k - 1)) # <<>>
        /\ strip(SubSeq(s, k + 1, i - 1)) # <<>>
        /\ strip(SubSeq(s, i + 3, Len(s))) # <<>>

\* C3: the record parsed from "<id> <creator> - <title>" has no field that
\* starts or ends with a whitespace character.
C3_FieldsStripped ==
    (parsed.called /\ HasForm(filename) /\ parsed.result # None) =>
        LET r == parsed.result[1]
        IN  Stripped(r.sid) /\ Stripped(r.artist) /\ Stripped(r.name)

----------------------------------------------------------------------------
(* Claims about the index (checked under Spec) *)

\* the records parsed from the entries, in the order of the entries
ParsedEntries(entries) ==
    filter_None([i \in 1..Len(entries) |-> _parse_beatmap(entries[i])])

LoadedFrom(c) == c.op = "load" /\ is_valid_path(c.path, c.isdir)

\* C4: after load(path) on an existing directory the index holds exactly the
\* records parsed from the directory's entries, whatever it held before.
C4_LoadReplaces ==
    LoadedFrom(call) =>
        LET ps == ParsedEntries(call.entries)
        IN  /\ Len(beatmaps) = Len(ps)
            /\ \A i \in 1..Len(ps) : Count(beatmaps, ps[i]) = Count(ps, ps[i])

\* C5: load with a path that is None, empty or no existing directory raises
\* nothing and leaves the index as it was.
C5_InvalidPathKeepsIndex ==
    [][(call'.op = "load" /\ ~is_valid_path(call'.path, call'.isdir)) =>
           (beatmaps' = beatmaps /\ ret'.exc = "None")]_vars

C5_Witness ==
    /\ call.op = "load"
    /\ call.path = Some("Songs")
    /\ ~call.isdir
    /\ Len(beatmaps) = 2
    /\ ret.exc = "None"

RECURSIVE CodePointLeq(_, _)
\* a <= b in the case-sensitive lexicographic order of str
CodePointLeq(a, b) ==
    IF a = <<>> THEN TRUE
    ELSE IF b = <<>> THEN FALSE
    ELSE IF Ord(Head(a)) # Ord(Head(b)) THEN Ord(Head(a)) < Ord(Head(b))
    ELSE CodePointLeq(Tail(a), Tail(b))

\* C6: the index is always in non-decreasing order of title, compared as
\* case-sensitive strings.
C6_SortedByTitle ==
    \A i, j \in 1..Len(beatmaps) :
        i < j => CodePointLeq(beatmaps[i].name, beatmaps[j].name)

C6_Witness ==
    /\ call.op = "load"
    /\ Len(call.entries) = 3
    /\ _parse_beatmap(call.entries[1])[1].name = <<"x">>
    /\ _parse_beatmap(call.entries[2])[1].name = <<"y">>
    /\ _parse_beatmap(call.entries[3])[1].name = <<"Y">>
    /\ beatmaps[1].name = <<"Y">>
    /\ beatmaps[2].name = <<"x">>
    /\ beatmaps[3].name = <<"y">>

\* keyword occurs in field, letter case ignored
OccursIgnoringCase(keyword, field) ==
    \E i \in 1..(Len(field) - Len(keyword) + 1) :
        \A n \in 1..Len(keyword) :
            lower_char(keyword[n]) = lower_char(field[i + n - 1])

\* C7: filter(keyword), keyword not empty, returns exactly the records in
\* whose id, creator or title the keyword occurs, letter case ignored.
C7_KeywordMatchesAnyField ==
    (call.op = "filter" /\ call.condition.type = "str" /\ call.condition.s # <<>>) =>
        /\ ret.exc = "None"
        /\ ret.value = SelectSeq(beatmaps, LAMBDA b :
                           \/ OccursIgnoringCase(call.condition.s, b.sid)
                           \/ OccursIgnoringCase(call.condition.s, b.artist)
                           \/ OccursIgnoringCase(call.condition.s, b.name))

\* a dict whose keys are ConditionType members and whose values are str
FieldCriterion(c) ==
    /\ c.type = "dict"
    /\ \A k \in DOMAIN c.items : k.enum /\ c.items[k].str

\* C8: filter(mapping) returns exactly the records in which, for every
\* selector of the mapping, its keyword occurs in that field, letter case
\* ignored.
C8_SelectorsMatchTheirField ==
    (call.op = "filter" /\ FieldCriterion(call.condition)) =>
        /\ ret.exc = "None"
        /\ ret.value = SelectSeq(beatmaps, LAMBDA b :
                           \A k \in DOMAIN call.condition.items :
                               OccursIgnoringCase(call.condition.items[k].s,
                                                  getattr(b, k.value)))

\* the positions of the index whose id occurs again later or earlier and
\* not earlier: one per duplicated id, in first-seen order
DuplicatedFirsts(s) ==
    SelectSeq([i \in 1..Len(s) |-> i], LAMBDA i :
        /\ \A j \in 1..(i - 1) : s[j].sid # s[i].sid
        /\ \E j \in (i + 1)..Len(s) : s[j].sid = s[i].sid)

\* C9: check() returns one record of the index for each id that more than
\* one record carries, in the order in which these ids first occur, and
\* nothing else.
C9_CheckReturnsDuplicates ==
    call.op = "check" =>
        /\ ret.exc = "None"
        /\ LET d == DuplicatedFirsts(beatmaps)
           IN  /\ Len(ret.value) = Len(d)
               /\ \A n \in 1..Len(d) :
                      /\ ret.value[n].sid = beatmaps[d[n]].sid
                      /\ Count(beatmaps, ret.value[n]) > 0

\* a criterion filter must refuse: no str and no dict, or a dict with a key
\* that is no ConditionType or a value that is no str
InvalidCriterion(c) == c.type # "str" /\ ~FieldCriterion(c)

\* C10: filter with an invalid criterion raises an invalid-argument error in
\* every state of the index.
C10_InvalidCriterionRaises ==
    (call.op = "filter" /\ InvalidCriterion(call.condition)) =>
        ret.exc = "TypeError"

\* C11: the index changes only in a load: beatmaps, filter (also when it
\* raises) and check leave it as it was.
C11_OnlyLoadChangesIndex ==
    [][beatmaps' # beatmaps => call'.op = "load"]_vars

C11_Witness ==
    /\ call.op = "check"
    /\ ret.exc = "None"
    /\ Len(ret.value) = 1
    /\ Len(beatmaps) = 3

\* C12: filter("") returns every record of the index, in the order of the
\* index.
C12_EmptyKeywordReturnsAll ==
    (call.op = "filter" /\ call.condition = StrCondition(<<>>)) =>
        ret = Returns(beatmaps)

C12_Witness ==
    /\ call.op = "filter"
    /\ call.condition = StrCondition(<<>>)
    /\ Len(beatmaps) = 3
    /\ ret.value = beatmaps

RECURSIVE IsSubsequence(_, _)
\* r is s with some elements left out
IsSubsequence(r, s) ==
    IF r = <<>> THEN TRUE
    ELSE IF s = <<>> THEN FALSE
    ELSE IF Head(r) = Head(s) /\ IsSubsequence(Tail(r), Tail(s)) THEN TRUE
    ELSE IsSubsequence(r, Tail(s))

\* C13: what filter returns is a subsequence of the index: the matching
\* records once each, in the order they have in the index.
C13_FilterKeepsOrder ==
    call.op = "filter" => IsSubsequence(ret.value, beatmaps)

C13_Witness ==
    /\ call.op = "filter"
    /\ Len(beatmaps) = 3
    /\ ret.value = <<beatmaps[1], beatmaps[3]>>

\* the names a listing holds
Names(entries) == {entries[i] : i \in 1..Len(entries)}

\* C14: load then filter("") gives the same sequence for every order in
\* which the directory enumerates one set of names.
C14_OrderOfEnumerationIrrelevant ==
    (LoadedFrom(call) /\ call.entries # <<>>) =>
        \A other \in Listings :
            Names(other) = Names(call.entries) =>
                filter(load(<<>>, call.path, call.isdir, other), StrCondition(<<>>))
                    = filter(beatmaps, StrCondition(<<>>))

\* C17: check() returns normally whatever the ids of the index are.
C17_CheckNeverRaises ==
    call.op = "check" => ret.exc = "None"

----------------------------------------------------------------------------
(* Claims about the client (checked under SpecClient) *)

\* the records of the directory scanned in the load c: none when the path
\* was no directory
ScannedRecords(c) ==
    IF is_valid_path(c.path, c.isdir) THEN ParsedEntries(c.entries) ELSE <<>>

\* C15: after the client has loaded its index (in __init__, flush, check and
\* path), the index holds exactly the records parsed from the directory the
\* config names, and is empty when that directory is empty or is none.
C15_FlushRebuildsIndex ==
    call.op = "load" =>
        LET ps == ScannedRecords(call)
        IN  /\ call.path = config[1].path
            /\ Len(beatmaps) = Len(ps)
            /\ \A i \in 1..Len(ps) : Count(beatmaps, ps[i]) = Count(ps, ps[i])

C15_Witness ==
    /\ cmd = "check" /\ pc = "check"
    /\ call.op = "load" /\ call.isdir /\ call.entries = <<>> /\ beatmaps = <<>>

\* C16: whenever the client finds no path in its config, in __init__ as in
\* a flush, the user is asked for one next, and an index is only loaded
\* from the path the config then has.
C16_PathAskedBeforeIndex ==
    [][/\ (pc = "set_path" => pc' = "input")
       /\ (pc = "load" => bool(config[1].path) /\ call'.path = config[1].path)]_vars

\* C18: the duplicates the check command prints are those of the directory
\* scanned in this command's flush; list and find print from the index as
\* it is and scan nothing.
C18_CheckFlushesFirst ==
    [][/\ (pc = "check" /\ pc' = "pause") =>
              /\ call.op = "load" /\ call.path = config[1].path
              /\ printed' = Some(check(load(<<>>, call.path, call.isdir,
                                              call.entries)).value)
       /\ (pc = "list") =>
              beatmaps' = beatmaps /\ call'.op # "load" /\ printed' = Some(beatmaps)
       /\ (pc = "find") =>
              /\ beatmaps' = beatmaps /\ call'.op # "load"
              /\ printed' = Some(filter(beatmaps, call'.condition).value)]_vars

C18_Witness ==
    /\ pc = "pause" /\ cmd = "check" /\ Len(call.entries) = 2
    /\ printed # None /\ Len(printed[1]) = 1

\* C19: _set_path ends only by returning: on `q` with the config and the
\* config file as they were, else with its input, an existing directory
\* when typed, saved as the path; any other input is asked again.
C19_SetPathEnds ==
    [][/\ (pc = "set_path" => pc' = "input")
       /\ (pc = "input" =>
              LET command == lower_str(input'.text)
                  isdir == input'.isdir /\ command # ""
              IN  \/ /\ command = "q"
                     /\ config' = config /\ config_file' = config_file
                     /\ pc' # "input"
                  \/ /\ command # "q" /\ isdir
                     /\ config'[1].path = Some(command)
                     /\ config_file' = JsonDict([path |-> Some(command)])
                     /\ pc' \in {"flush", "load"}
                  \/ /\ command # "q" /\ ~isdir
                     /\ config' = config /\ config_file' = config_file
                     /\ pc' = "set_path")]_vars

\* arg has the form <field>=<keyword> for the field k
FieldForm(arg, k) ==
    /\ Len(arg) > Len(value(k))
    /\ SubSeq(arg, 1, Len(value(k)) + 1) = value(k) \o <<"=">>

\* C20: find hands filter the criterion {field: keyword} exactly when its
\* argument is <field>=<keyword> with field one of sid, artist, name, and
\* the argument itself as a keyword otherwise; the matches are printed.
C20_FindCriterion ==
    (pc = "pause" /\ cmd = "find") =>
        /\ call.op = "filter"
        /\ \A k \in ConditionType : FieldForm(find_arg, k) =>
               call.condition =
                   DictCondition([f \in {EnumKey(k)} |->
                       StrVal(SubSeq(find_arg, Len(value(k)) + 2, Len(find_arg)))])
        /\ (~\E k \in ConditionType : FieldForm(find_arg, k)) =>
               call.condition = StrCondition(find_arg)
        /\ printed = Some(filter(beatmaps, call.condition).value)

C20_Witness ==
    /\ pc = "pause" /\ cmd = "find"
    /\ find_arg = <<"s", "i", "d", "=", "1">>
    /\ Len(beatmaps) = 2 /\ printed = Some(beatmaps)

\* C21: ConfigManager.load does not fail on a config file that is missing,
\* unreadable or no JSON: the config becomes the default {path: None} and
\* the default is written to the file; after every load the config is a
\* Config, never None.
C21_LoadNeverFails ==
    [][(pc = "start" \/ pc = "flush") =>
           (/\ config' # None
            /\ config_file.kind \in {"unreadable", "undecodable"} =>
                   (/\ raised' = "None"
                    /\ config' = Some(_DEFAULT_CONFIG)
                    /\ config_file' = JsonDict(_DEFAULT_CONFIG)))]_vars

\* C22: once the client is constructed the process ends only when `exit` is
\* entered, with status 0, on a KeyboardInterrupt, with status 130, on an
\* IOError, with status 4, or on another error; anything else that is typed
\* leaves it at its prompt.
C22_RunLoopEnds ==
    [][(pc # "start" /\ cmd # "init" /\ status = None /\ status' # None) =>
           (\/ pc = "exit" /\ cmd = "exit" /\ raised' = "None" /\ status' = Some(0)
            \/ raised' = "KeyboardInterrupt" /\ status' = Some(130)
            \/ raised' = "IOError" /\ status' = Some(4)
            \/ raised' \notin {"None", "KeyboardInterrupt", "IOError"})]_vars

====
